---- MODULE Spec2Model ----
(***************************************************************************)
(* A model of src/parser.py: the XSD schema compiler XSDSchemaCompiler.    *)
(* A schema document is an XML tree (ElementTree nodes: tag, attrib,       *)
(* children).  The compiler indexes the top-level declarations, resolves a *)
(* root identifier to a type expression (Expr) and renders it as text.     *)
(* Strings are TLA+ strings; they are taken apart with Len and SubSeq.     *)
(***************************************************************************)
EXTENDS Integers, Sequences, FiniteSets, TLC

VARIABLES
    schema,           \* self.root: the parsed schema document (an XML node)
    ignored_keys,     \* self.ignored_keys
    simple_types,     \* self.simple_types: name -> node
    complex_types,    \* self.complex_types: name -> node
    global_elements,  \* self.global_elements: name -> node
    pc,               \* position of parse(): "new", "indexed", "compiled", "failed", "rendered"
    root_identifier,  \* the argument of the last compile_root call
    root_name,        \* compile_root's returned name
    expr,             \* compile_root's returned expression
    error,            \* the exception compile_root raised ("" when none)
    rendered,         \* render's returned text
    call              \* the last direct call of a resolver method and its result

vars == <<schema, ignored_keys, simple_types, complex_types, global_elements,
          pc, root_identifier, root_name, expr, error, rendered, call>>

-----------------------------------------------------------------------------
(* Bounds of the model. *)

\* The interpreter's recursion limit (sys.getrecursionlimit(), 1000 by
\* default), scaled down: the deepest chain of resolver calls allowed.
RecursionLimit == 12

\* The largest finite maxOccurs / minOccurs value a generated element carries.
MaxOccursValue == 2

-----------------------------------------------------------------------------
(* Strings. *)

XSD_NS == "{http://www.w3.org/2001/XMLSchema}"

Ch(s, i) == SubSeq(s, i, i)

LowerChars == "abcdefghijklmnopqrstuvwxyz"
UpperChars == "ABCDEFGHIJKLMNOPQRSTUVWXYZ"
DigitChars == "0123456789"

CharSet(s) == {Ch(s, i) : i \in 1..Len(s)}

LowerSet == CharSet(LowerChars)
UpperSet == CharSet(UpperChars)
DigitSet == CharSet(DigitChars)

IsLower(c) == c \in LowerSet
IsUpper(c) == c \in UpperSet
IsDigit(c) == c \in DigitSet
IsAlnum(c) == c \in LowerSet \cup UpperSet \cup DigitSet

\* str.lower() on one character, then on a string
LowerChar(c) ==
    IF IsUpper(c)
    THEN Ch(LowerChars, CHOOSE i \in 1..Len(UpperChars) : Ch(UpperChars, i) = c)
    ELSE c

RECURSIVE lower(_)
lower(s) ==
    IF s = "" THEN "" ELSE LowerChar(Ch(s, 1)) \o lower(Tail(s))

\* the first position of character c in s, 0 when absent
RECURSIVE IndexFrom(_, _, _)
IndexFrom(s, c, i) ==
    IF i > Len(s) THEN 0
    ELSE IF Ch(s, i) = c THEN i
    ELSE IndexFrom(s, c, i + 1)

IndexOf(s, c) == IndexFrom(s, c, 1)

\* Python's "sub in s"
Contains(s, sub) ==
    \E i \in 1..(Len(s) - Len(sub) + 1) : SubSeq(s, i, i + Len(sub) - 1) = sub

\* Python's s.startswith(prefix)
startswith(s, prefix) ==
    Len(s) >= Len(prefix) /\ SubSeq(s, 1, Len(prefix)) = prefix

\* Python's sep.join(parts)
RECURSIVE join(_, _)
join(sep, parts) ==
    IF Len(parts) = 0 THEN ""
    ELSE IF Len(parts) = 1 THEN parts[1]
    ELSE parts[1] \o sep \o join(sep, Tail(parts))

\* re.sub(r"[^0-9A-Za-z]+", "_", name): every maximal run of characters
\* outside [0-9A-Za-z] becomes one underscore.  inRun: the previous character
\* was part of such a run.
RECURSIVE CollapseRuns(_, _)
CollapseRuns(s, inRun) ==
    IF s = "" THEN ""
    ELSE IF IsAlnum(Ch(s, 1)) THEN Ch(s, 1) \o CollapseRuns(Tail(s), FALSE)
    ELSE IF inRun THEN CollapseRuns(Tail(s), TRUE)
    ELSE "_" \o CollapseRuns(Tail(s), TRUE)

\* re.sub(r"([a-z0-9])([A-Z])", r"\1_\2", cleaned): an underscore between a
\* lowercase letter or digit and the uppercase letter that follows it.
RECURSIVE SplitCamel(_)
SplitCamel(s) ==
    IF Len(s) < 2 THEN s
    ELSE IF (IsLower(Ch(s, 1)) \/ IsDigit(Ch(s, 1))) /\ IsUpper(Ch(s, 2))
         THEN Ch(s, 1) \o "_" \o SplitCamel(Tail(s))
         ELSE Ch(s, 1) \o SplitCamel(Tail(s))

\* str.strip("_")
RECURSIVE lstrip(_)
lstrip(s) ==
    IF s # "" /\ Ch(s, 1) = "_" THEN lstrip(Tail(s)) ELSE s

RECURSIVE rstrip(_)
rstrip(s) ==
    IF s # "" /\ Ch(s, Len(s)) = "_" THEN rstrip(SubSeq(s, 1, Len(s) - 1)) ELSE s

strip(s) == rstrip(lstrip(s))

\* A variant of _snake_case that strips the underscores before the two
\* substitutions instead of after them.
SnakeCaseStripFirst(name) == lower(SplitCamel(CollapseRuns(strip(name), FALSE)))

_snake_case(name) == lower(strip(SplitCamel(CollapseRuns(name, FALSE))))

\* s.split(sep, 1)[1], where at is the position of the first sep in s
AfterFirst(s, at) == SubSeq(s, at + 1, Len(s))

\* _strip_ns on the positions of the first "}" and the first ":" (0: none)
StripAt(tag_or_type, brace, colon) ==
    IF tag_or_type = "" THEN ""
    ELSE IF brace > 0 THEN AfterFirst(tag_or_type, brace)
    ELSE IF colon > 0 THEN AfterFirst(tag_or_type, colon)
    ELSE tag_or_type

_strip_ns(tag_or_type) ==
    StripAt(tag_or_type, IndexOf(tag_or_type, "}"), IndexOf(tag_or_type, ":"))

-----------------------------------------------------------------------------
(* XML nodes (xml.etree.ElementTree.Element): a tag, the attributes as a   *)
(* sequence of <<key, value>> pairs with distinct keys, and the children   *)
(* in document order.                                                      *)

Node(tag, attrib, children) ==
    [tag |-> tag, attrib |-> attrib, children |-> children]

\* Element.get(key) is not None
has(node, key) == \E i \in 1..Len(node.attrib) : node.attrib[i][1] = key

\* Element.get(key, default)
get(node, key, default) ==
    IF \E i \in 1..Len(node.attrib) : node.attrib[i][1] = key
    THEN node.attrib[CHOOSE i \in 1..Len(node.attrib) : node.attrib[i][1] = key][2]
    ELSE default

\* Element.findall(tag): the direct children with that tag, in document order
findall(node, tag) == SelectSeq(node.children, LAMBDA c : c.tag = tag)

\* Element.find(tag) is not None, and Element.find(tag)
found(node, tag) == Len(findall(node, tag)) > 0
find(node, tag) == findall(node, tag)[1]

-----------------------------------------------------------------------------
(* The data model: Expr(kind, value) and Field(name, expr). *)

Expr(kind, value) == [kind |-> kind, value |-> value]
Field(name, e) == [name |-> name, expr |-> e]

\* An exception travelling up the call stack is modelled as the value
\* Expr("raise", <exception>): every caller that receives it returns it.
RecursionError == Expr("raise", "RecursionError")
Raised(e) == e.kind = "raise"

-----------------------------------------------------------------------------
(* XSDSchemaCompiler: the Schema Index. *)

\* self.schema_path
schema_path == "schema.xsd"

\* an empty dict
EmptyDict == [n \in {} |-> Node("", <<>>, <<>>)]


\* A variant of DictSet that keeps an entry already present
\* (d.setdefault(name, child)).
DictSetDefault(d, name, child) ==
    [n \in DOMAIN d \cup {name} |-> IF n \in DOMAIN d THEN d[n] ELSE child]

\* d[name] = child
DictSet(d, name, child) ==
    [n \in DOMAIN d \cup {name} |-> IF n = name THEN child ELSE d[n]]

\* One iteration of the loop of _index_schema over the schema's direct
\* children: index is the three dicts, child the next top-level child.
IndexNamed(index, child, local, name) ==
    IF name = "" THEN index
    ELSE IF local = "simpleType"
         THEN [index EXCEPT !.simple_types = DictSet(@, name, child)]
    ELSE IF local = "complexType"
         THEN [index EXCEPT !.complex_types = DictSet(@, name, child)]
    ELSE IF local = "element"
         THEN [index EXCEPT !.global_elements = DictSet(@, name, child)]
    ELSE index

IndexChild(index, child) ==
    IndexNamed(index, child, _strip_ns(child.tag), get(child, "name", ""))

\* _index_schema: the loop over self.root's children, in document order,
\* starting from the empty dicts __init__ creates.
RECURSIVE IndexChildren(_, _)
IndexChildren(index, children) ==
    IF Len(children) = 0 THEN index
    ELSE IndexChildren(IndexChild(index, Head(children)), Tail(children))

_index_schema(root) ==
    IndexChildren([simple_types |-> EmptyDict, complex_types |-> EmptyDict,
                   global_elements |-> EmptyDict], root.children)

-----------------------------------------------------------------------------
(* XSDSchemaCompiler: the Type Resolver.                                   *)
(* A method whose body uses an intermediate value several times is written *)
(* as the method plus an operator that takes that value as a parameter.    *)

\* the mapping table of _builtin_scalar
mapping ==
    [string |-> "string", token |-> "string", normalizedString |-> "string",
     integer |-> "int", int |-> "int", long |-> "int", short |-> "int",
     nonNegativeInteger |-> "int", positiveInteger |-> "int",
     boolean |-> "bool", date |-> "date",
     gYear |-> "string", gMonth |-> "string", gDay |-> "string",
     anyURI |-> "string",
     decimal |-> "float", double |-> "float", float |-> "float"]

\* mapping.get(t, "string")
MappingGet(t) == IF t \in DOMAIN mapping THEN mapping[t] ELSE "string"

_builtin_scalar(xsd_type) == MappingGet(_strip_ns(xsd_type))

\* the keyword set tested by _expr_for_type_name
BuiltinKeywords ==
    {"string", "integer", "int", "long", "short", "nonNegativeInteger",
     "positiveInteger", "boolean", "date", "gYear", "gMonth", "gDay",
     "anyURI", "decimal", "double", "float", "token", "normalizedString"}

\* the values of the enumeration nodes that carry one, in document order
EnumValues(enum_nodes) ==
    [i \in 1..Len(enum_nodes) |-> get(enum_nodes[i], "value", "")]

\* restrictions: node.findall(restriction), of which find() is the first
EnumValuesOfRestrictions(restrictions) ==
    IF Len(restrictions) = 0 THEN <<>>
    ELSE EnumValues(SelectSeq(findall(restrictions[1], XSD_NS \o "enumeration"),
                              LAMBDA n : has(n, "value")))

_enum_values_from_simple_type(node) ==
    EnumValuesOfRestrictions(findall(node, XSD_NS \o "restriction"))

\* ", ".join(f'"{v}"' for v in enums)
Quoted(enums) == join(", ", [i \in 1..Len(enums) |-> "\"" \o enums[i] \o "\""])

SimpleTypeExpr(enums, restrictions) ==
    IF Len(enums) > 0 THEN Expr("scalar", "enum(" \o Quoted(enums) \o ")")
    ELSE IF Len(restrictions) > 0 /\ get(restrictions[1], "base", "") # ""
         THEN Expr("scalar", _builtin_scalar(get(restrictions[1], "base", "xs:string")))
    ELSE Expr("scalar", "string")

_expr_for_simple_type(node) ==
    SimpleTypeExpr(_enum_values_from_simple_type(node),
                   findall(node, XSD_NS \o "restriction"))


\* A variant of BaseValueNameOf whose first rule does not look at the base
\* scalar kind.
BaseValueNameAnyKind(base_scalar, ctx) ==
    IF Contains(ctx, "name") THEN "name"
    ELSE IF ctx \in {"skill"} THEN "value"
    ELSE IF base_scalar = "structured_text"
         THEN (IF ctx \in {"technique"} THEN "text" ELSE "content")
    ELSE "value"

\* _base_value_name after ctx = context_name.lower()
BaseValueNameOf(base_scalar, ctx) ==
    IF Contains(ctx, "name") /\ base_scalar = "string" THEN "name"
    ELSE IF ctx \in {"skill"} THEN "value"
    ELSE IF base_scalar = "structured_text"
         THEN (IF ctx \in {"technique"} THEN "text" ELSE "content")
    ELSE "value"

_base_value_name(base_scalar, context_name) ==
    BaseValueNameOf(base_scalar, lower(context_name))


\* A variant of _filter_fields that keeps every field.
FilterNothing(fields) == fields

_filter_fields(fields) ==
    SelectSeq(fields, LAMBDA f : f.name \notin ignored_keys)


\* A variant of OccursWrapped that applies the Optional wrapper first, so
\* that List ends up outside.
OccursWrappedListOuter(e, min_occurs, max_occurs) ==
    IF max_occurs # "1"
    THEN (IF min_occurs = "0" THEN Expr("list", Expr("optional", e))
                              ELSE Expr("list", e))
    ELSE (IF min_occurs = "0" THEN Expr("optional", e) ELSE e)

\* the two tests of _element_occurs_wrapped, on the attribute values read
OccursWrapped(e, min_occurs, max_occurs) ==
    IF min_occurs = "0"
    THEN (IF max_occurs # "1" THEN Expr("optional", Expr("list", e))
                              ELSE Expr("optional", e))
    ELSE (IF max_occurs # "1" THEN Expr("list", e) ELSE e)

_element_occurs_wrapped(e, node) ==
    OccursWrapped(e, get(node, "minOccurs", "1"), get(node, "maxOccurs", "1"))

\* Each resolver method takes the depth of its own frame on the call stack and
\* raises RecursionError when that exceeds the interpreter's limit.
RECURSIVE _expr_for_type_name(_, _, _)
RECURSIVE _attribute_to_field(_, _)
RECURSIVE _expr_for_element_content(_, _)
RECURSIVE _element_to_field(_, _)
RECURSIVE _expr_for_complex_type(_, _, _)


\* A variant of TypeNameExpr that raises KeyError for a name found in
\* neither index instead of falling back to Scalar(string).
TypeNameExprStrict(type_name, local, context_name, depth) ==
    IF startswith(type_name, "xs:") \/ local \in BuiltinKeywords
    THEN Expr("scalar", _builtin_scalar(type_name))
    ELSE IF local = "StructuredTextType"
         THEN Expr("scalar", "structured_text")
    ELSE IF local \in DOMAIN simple_types
         THEN _expr_for_simple_type(simple_types[local])
    ELSE IF local \in DOMAIN complex_types
         THEN _expr_for_complex_type(complex_types[local], context_name, depth + 1)
    ELSE Expr("raise", "KeyError")

\* A variant of TypeNameExpr that looks the name up as a complex type before
\* it looks it up as a simple type.
TypeNameExprComplexFirst(type_name, local, context_name, depth) ==
    IF startswith(type_name, "xs:") \/ local \in BuiltinKeywords
    THEN Expr("scalar", _builtin_scalar(type_name))
    ELSE IF local = "StructuredTextType"
         THEN Expr("scalar", "structured_text")
    ELSE IF local \in DOMAIN complex_types
         THEN _expr_for_complex_type(complex_types[local], context_name, depth + 1)
    ELSE IF local \in DOMAIN simple_types
         THEN _expr_for_simple_type(simple_types[local])
    ELSE Expr("scalar", "string")

\* _expr_for_type_name after local = _strip_ns(type_name)
TypeNameExpr(type_name, local, context_name, depth) ==
    IF startswith(type_name, "xs:") \/ local \in BuiltinKeywords
    THEN Expr("scalar", _builtin_scalar(type_name))
    ELSE IF local = "StructuredTextType"
         THEN Expr("scalar", "structured_text")
    ELSE IF local \in DOMAIN simple_types
         THEN _expr_for_simple_type(simple_types[local])
    ELSE IF local \in DOMAIN complex_types
         THEN _expr_for_complex_type(complex_types[local], context_name, depth + 1)
    ELSE Expr("scalar", "string")

_expr_for_type_name(type_name, context_name, depth) ==
    IF depth > RecursionLimit THEN RecursionError
    ELSE TypeNameExpr(type_name, _strip_ns(type_name), context_name, depth)

\* the expression of an attribute before the Optional wrapping
AttributeExpr(attr, name, attr_type, depth) ==
    IF attr_type # ""
    THEN _expr_for_type_name(attr_type, name, depth + 1)
    ELSE IF found(attr, XSD_NS \o "simpleType")
         THEN _expr_for_simple_type(find(attr, XSD_NS \o "simpleType"))
    ELSE Expr("scalar", "string")


\* A variant of AttributeWrapped that wraps a required attribute too.
AttributeAlwaysOptional(name, e, required) ==
    IF Raised(e) THEN Field(name, e)
    ELSE Field(name, Expr("optional", e))

\* the end of _attribute_to_field: required = attr.get("use") == "required"
AttributeWrapped(name, e, required) ==
    IF Raised(e) THEN Field(name, e)
    ELSE IF ~required THEN Field(name, Expr("optional", e))
    ELSE Field(name, e)

AttributeNamed(attr, name, depth) ==
    IF depth > RecursionLimit THEN Field(name, RecursionError)
    ELSE AttributeWrapped(name, AttributeExpr(attr, name, get(attr, "type", ""), depth),
                          get(attr, "use", "") = "required")

_attribute_to_field(attr, depth) ==
    AttributeNamed(attr, _snake_case(get(attr, "name", "attribute")), depth)

\* _expr_for_element_content after reading the element's name and type
ElementContent(node, element_name, element_type, depth) ==
    IF element_type # ""
    THEN _expr_for_type_name(element_type, element_name, depth + 1)
    ELSE IF found(node, XSD_NS \o "simpleType")
         THEN _expr_for_simple_type(find(node, XSD_NS \o "simpleType"))
    ELSE IF found(node, XSD_NS \o "complexType")
         THEN _expr_for_complex_type(find(node, XSD_NS \o "complexType"),
                                     element_name, depth + 1)
    ELSE Expr("scalar", "string")

_expr_for_element_content(node, depth) ==
    IF depth > RecursionLimit THEN RecursionError
    ELSE ElementContent(node, _snake_case(get(node, "name", "item")),
                        get(node, "type", ""), depth)

\* the end of _element_to_field: e is the element's content expression
ElementField(name, e, node) ==
    IF Raised(e) THEN Field(name, e)
    ELSE Field(name, _element_occurs_wrapped(e, node))

_element_to_field(node, depth) ==
    IF depth > RecursionLimit
    THEN Field(_snake_case(get(node, "name", "item")), RecursionError)
    ELSE ElementField(_snake_case(get(node, "name", "item")),
                      _expr_for_element_content(node, depth + 1), node)

\* the fields of a sequence of attribute / element declarations
AttributeFields(attrs, depth) ==
    [i \in 1..Len(attrs) |-> _attribute_to_field(attrs[i], depth + 1)]

ElementFields(elements, depth) ==
    [i \in 1..Len(elements) |-> _element_to_field(elements[i], depth + 1)]

\* Expr("object", self._filter_fields(fields)), unless a call that built a
\* field raised
ObjectOf(fields) ==
    IF \E i \in 1..Len(fields) : Raised(fields[i].expr)
    THEN fields[CHOOSE i \in 1..Len(fields) :
                    /\ Raised(fields[i].expr)
                    /\ \A j \in 1..(i - 1) : ~Raised(fields[j].expr)].expr
    ELSE Expr("object", _filter_fields(fields))

\* the field that holds the value of the extension's base type
BaseField(base_expr, context_name) ==
    IF base_expr.kind = "scalar"
    THEN Field(_base_value_name(base_expr.value, context_name), base_expr)
    ELSE Field("value", base_expr)

\* The body shared by the complexContent and the simpleContent branch of
\* _expr_for_complex_type, for their extension node.
ExtensionObject(extension, context_name, depth) ==
    ObjectOf(<<BaseField(_expr_for_type_name(get(extension, "base", "xs:string"),
                                             context_name, depth + 1),
                         context_name)>>
             \o AttributeFields(findall(extension, XSD_NS \o "attribute"), depth))

\* Expr("list", child_expr), unless resolving the child raised
ListOf(child_expr) ==
    IF Raised(child_expr) THEN child_expr ELSE Expr("list", child_expr)


\* A variant of PlainObject that collapses a type with attributes too.
PlainObjectIgnoringAttributes(elements, attrs, depth) ==
    IF /\ Len(elements) = 1
       /\ get(elements[1], "minOccurs", "1") = "1"
       /\ get(elements[1], "maxOccurs", "1") # "1"
    THEN ListOf(_expr_for_element_content(elements[1], depth + 1))
    ELSE ObjectOf(ElementFields(elements, depth) \o AttributeFields(attrs, depth))

\* The rest of _expr_for_complex_type, a plain structure: elements are the
\* element declarations of the first sequence (none without a sequence),
\* attrs the type's attribute declarations.
PlainObject(elements, attrs, depth) ==
    IF /\ Len(elements) = 1
       /\ Len(attrs) = 0
       /\ get(elements[1], "minOccurs", "1") = "1"
       /\ get(elements[1], "maxOccurs", "1") # "1"
    THEN ListOf(_expr_for_element_content(elements[1], depth + 1))
    ELSE ObjectOf(ElementFields(elements, depth) \o AttributeFields(attrs, depth))

\* sequence.findall(element) for node.find(sequence), [] when there is none
SequenceElements(sequences) ==
    IF Len(sequences) = 0 THEN <<>>
    ELSE findall(sequences[1], XSD_NS \o "element")

PlainComplexType(node, depth) ==
    PlainObject(SequenceElements(findall(node, XSD_NS \o "sequence")),
                findall(node, XSD_NS \o "attribute"), depth)

\* the extension nodes of the first child tagged content_tag ([] when the
\* node has no such child)
Extensions(contents) ==
    IF Len(contents) = 0 THEN <<>>
    ELSE findall(contents[1], XSD_NS \o "extension")

\* _expr_for_complex_type on the extensions found under complexContent and
\* under simpleContent
ComplexTypeExpr(node, complex_ext, simple_ext, context_name, depth) ==
    IF Len(complex_ext) > 0 \/ Len(simple_ext) > 0
    THEN ExtensionObject(IF Len(complex_ext) > 0 THEN complex_ext[1] ELSE simple_ext[1],
                         context_name, depth)
    ELSE PlainComplexType(node, depth)

_expr_for_complex_type(node, context_name, depth) ==
    IF depth > RecursionLimit THEN RecursionError
    ELSE ComplexTypeExpr(node,
                         Extensions(findall(node, XSD_NS \o "complexContent")),
                         Extensions(findall(node, XSD_NS \o "simpleContent")),
                         context_name, depth)

-----------------------------------------------------------------------------
(* XSDSchemaCompiler: the Root Resolver. *)

aliases ==
    [attack_pattern |-> "AttackPatternType",
     weakness |-> "WeaknessType",
     attack_pattern_catalog |-> "Attack_Pattern_Catalog",
     weakness_catalog |-> "Weakness_Catalog"]

\* the lookup key of compile_root
LookupKey(identifier) ==
    IF identifier \in DOMAIN aliases THEN aliases[identifier] ELSE identifier


\* A variant of CompileLookup that never looks the key up as a complex type.
CompileLookupElementsOnly(identifier, lookup) ==
    IF lookup \in DOMAIN global_elements
    THEN _expr_for_element_content(global_elements[lookup], 1)
    ELSE Expr("raise", "ValueError: Root '" \o identifier
                       \o "' introuvable dans le schéma: " \o schema_path)

\* A variant of CompileLookup that looks the key up as a complex type first.
CompileLookupTypesFirst(identifier, lookup) ==
    IF lookup \in DOMAIN complex_types
    THEN _expr_for_complex_type(complex_types[lookup], lookup, 1)
    ELSE IF lookup \in DOMAIN global_elements
    THEN _expr_for_element_content(global_elements[lookup], 1)
    ELSE Expr("raise", "ValueError: Root '" \o identifier
                       \o "' introuvable dans le schéma: " \o schema_path)

\* compile_root after the alias lookup
CompileLookup(identifier, lookup) ==
    IF lookup \in DOMAIN global_elements
    THEN _expr_for_element_content(global_elements[lookup], 1)
    ELSE IF lookup \in DOMAIN complex_types
    THEN _expr_for_complex_type(complex_types[lookup], lookup, 1)
    ELSE Expr("raise", "ValueError: Root '" \o identifier
                       \o "' introuvable dans le schéma: " \o schema_path)

\* compile_root's returned expression, or the exception it raised; the name
\* it returns with an expression is _snake_case(root_identifier)
compile_root(identifier) == CompileLookup(identifier, LookupKey(identifier))

-----------------------------------------------------------------------------
(* XSDSchemaCompiler: the Renderer.  Text is a string; lines are joined    *)
(* with "\n".                                                              *)

RECURSIVE pad(_)
pad(indent) == IF indent = 0 THEN "" ELSE "  " \o pad(indent - 1)

\* the concatenation of a sequence of sequences (list.extend in a loop)
RECURSIVE Flatten(_)
Flatten(seqs) ==
    IF Len(seqs) = 0 THEN <<>> ELSE Head(seqs) \o Flatten(Tail(seqs))

RECURSIVE _render_expr(_, _)
RECURSIVE _render_field(_, _)

\* lines or [pad + "{}"]
LinesOrEmpty(lines, indent) ==
    IF Len(lines) > 0 THEN lines ELSE <<pad(indent) \o "{}">>

_render_expr(e, indent) ==
    IF e.kind = "scalar" THEN <<pad(indent) \o e.value>>
    ELSE IF e.kind = "object"
    THEN LinesOrEmpty(Flatten([i \in 1..Len(e.value) |->
                                  _render_field(e.value[i], indent)]), indent)
    ELSE IF e.kind \in {"list", "optional"}
    THEN (IF e.value.kind = "scalar"
          THEN <<pad(indent) \o e.kind \o "<" \o e.value.value \o ">">>
          ELSE <<pad(indent) \o e.kind \o "<">>
               \o _render_expr(e.value, indent + 1)
               \o <<pad(indent) \o ">">>)
    ELSE <<pad(indent) \o "string">>

\* a field that is no object: its name before the first rendered line
FieldLines(name, lines, indent) ==
    <<pad(indent) \o name \o ": " \o SubSeq(lines[1], 2 * indent + 1, Len(lines[1]))>>
    \o Tail(lines)

_render_field(field, indent) ==
    IF field.expr.kind = "object"
    THEN <<pad(indent) \o field.name \o ":">> \o _render_expr(field.expr, indent + 1)
    ELSE FieldLines(field.name, _render_expr(field.expr, indent), indent)


\* A variant of RootLines that keeps the first rendered line only.
RootLinesFirstOnly(name, lines) == <<name \o ": " \o lines[1]>>

\* a root that is no object: its name before the first rendered line
RootLines(name, lines) == <<name \o ": " \o lines[1]>> \o Tail(lines)

render(name, e) ==
    IF e.kind = "object"
    THEN join("\n", <<name \o ":">> \o _render_expr(e, 1)) \o "\n"
    ELSE join("\n", RootLines(name, _render_expr(e, 0))) \o "\n"

-----
(* The schema documents the compiler is run on.                            *)

\* Bound: the longest sequence of top-level declarations drawn from DeclPool.
MaxDecls == 2

xs(local) == XSD_NS \o local

\* the decimal numeral of a one-digit number
Numeral(n) == Ch(DigitChars, n + 1)

\* minOccurs / maxOccurs values; "" stands for an absent attribute
MinValues == {""} \cup {Numeral(n) : n \in 0..MaxOccursValue}
MaxValues == {"", "unbounded"} \cup {Numeral(n) : n \in 0..MaxOccursValue}

\* an attribute list from <<key, value>> pairs, leaving out the absent ones
Attrs(pairs) == SelectSeq(pairs, LAMBDA kv : kv[2] # "")

Enumeration(value) == Node(xs("enumeration"), <<<<"value", value>>>>, <<>>)

\* <xs:restriction base="xs:string"> with three enumeration facets and one
\* facet without a value
LevelRestriction ==
    Node(xs("restriction"), <<<<"base", "xs:string">>>>,
         <<Enumeration("High"), Node(xs("enumeration"), <<>>, <<>>),
           Enumeration("Medium"), Enumeration("Low")>>)

LevelType ==
    Node(xs("simpleType"), <<<<"name", "LevelType">>>>, <<LevelRestriction>>)

\* a complex type with two element fields and a required attribute
ItemType ==
    Node(xs("complexType"), <<<<"name", "ItemType">>>>,
         <<Node(xs("sequence"), <<>>,
                <<Node(xs("element"), <<<<"name", "Title">>, <<"type", "xs:string">>>>, <<>>),
                  Node(xs("element"), <<<<"name", "Level">>, <<"type", "LevelType">>,
                                        <<"minOccurs", "0">>>>, <<>>)>>),
           Node(xs("attribute"), <<<<"name", "ID">>, <<"type", "xs:integer">>,
                                   <<"use", "required">>>>, <<>>)>>)

\* The content of the element under test: a type reference and inline children.
ContentVariants ==
    {[type |-> "xs:string", children |-> <<>>],
     [type |-> "ItemType", children |-> <<>>],
     [type |-> "", children |-> <<>>],
     [type |-> "", children |->
        <<Node(xs("complexType"), <<>>,
               <<Node(xs("sequence"), <<>>,
                      <<Node(xs("element"), <<<<"name", "Value">>>>, <<>>)>>),
                 Node(xs("attribute"), <<<<"name", "Status">>>>, <<>>)>>)>>]}

MoreContentVariants ==
    {[type |-> "capec:UnknownType", children |-> <<>>],
     [type |-> "", children |->
        <<Node(xs("simpleType"), <<>>, <<LevelRestriction>>)>>]}

\* Attributes declared on the complex type under test.
AttributeVariants ==
    {<<Node(xs("attribute"), <<<<"name", "Status">>, <<"type", "LevelType">>,
                               <<"use", "required">>>>, <<>>)>>,
     <<Node(xs("attribute"), <<<<"name", "Name">>, <<"use", "optional">>>>,
            <<Node(xs("simpleType"), <<>>,
                   <<Node(xs("restriction"), <<<<"base", "xs:int">>>>, <<>>)>>)>>),
       Node(xs("attribute"), <<<<"use", "required">>>>, <<>>),
       Node(xs("attribute"), <<<<"name", "Kind">>, <<"use", "required">>>>,
            <<Node(xs("simpleType"), <<>>, <<LevelRestriction>>)>>),
       Node(xs("attribute"), <<<<"name", "Flag">>, <<"type", "xs:boolean">>,
                               <<"use", "Required">>>>, <<>>)>>}

\* A schema whose complex type AttackPatternType holds the element
\* Example_Instance with the given content and occurrence attributes, an
\* optional second element, and the given attributes.
OccursDoc(content, min, max, second, attributes) ==
    Node(xs("schema"), <<>>,
         <<LevelType, ItemType,
           Node(xs("complexType"), <<<<"name", "AttackPatternType">>>>,
                <<Node(xs("sequence"), <<>>,
                       <<Node(xs("element"),
                              Attrs(<<<<"name", "Example_Instance">>,
                                      <<"type", content.type>>,
                                      <<"minOccurs", min>>, <<"maxOccurs", max>>>>),
                              content.children)>>
                       \o (IF second
                           THEN <<Node(xs("element"),
                                       <<<<"name", "Description">>,
                                         <<"type", "capec:StructuredTextType">>,
                                         <<"minOccurs", "0">>,
                                         <<"maxOccurs", "unbounded">>>>, <<>>)>>
                           ELSE <<>>))>>
                \o attributes),
           Node(xs("element"), <<<<"name", "Attack_Pattern_Catalog">>,
                                 <<"type", "AttackPatternType">>>>, <<>>)>>)

OccursDocs ==
    {OccursDoc(c, mn, mx, FALSE, <<>>) :
        c \in ContentVariants, mn \in MinValues, mx \in MaxValues}
    \cup {OccursDoc(c, mn, mx, FALSE, <<>>) :
        c \in MoreContentVariants, mn \in {"", "0"}, mx \in {"", "unbounded"}}
    \cup {OccursDoc([type |-> "xs:string", children |-> <<>>], mn, mx, TRUE, <<>>) :
        mn \in {"", "0"}, mx \in {"", "unbounded"}}
    \cup {OccursDoc([type |-> "xs:string", children |-> <<>>], mn, mx, FALSE, a) :
        mn \in {"", "0"}, mx \in {"", "unbounded"}, a \in AttributeVariants}

\* A schema whose complex type Skill extends `base` through simpleContent or
\* complexContent and is the type of an element named element_name in
\* WeaknessType.
ExtensionDoc(content_kind, base, element_name) ==
    Node(xs("schema"), <<>>,
         <<LevelType, ItemType,
           Node(xs("complexType"), <<<<"name", "Skill">>>>,
                <<Node(xs(content_kind), <<>>,
                       <<Node(xs("extension"), Attrs(<<<<"base", base>>>>),
                              <<Node(xs("attribute"),
                                     <<<<"name", "Name">>, <<"type", "xs:string">>,
                                       <<"use", "required">>>>, <<>>),
                                Node(xs("attribute"),
                                     <<<<"name", "Value">>, <<"type", "LevelType">>>>,
                                     <<>>)>>)>>)>>),
           Node(xs("complexType"), <<<<"name", "WeaknessType">>>>,
                <<Node(xs("sequence"), <<>>,
                       <<Node(xs("element"),
                              <<<<"name", element_name>>, <<"type", "Skill">>,
                                <<"minOccurs", "0">>>>, <<>>)>>)>>)>>)

Bases == {"", "xs:string", "xs:integer", "capec:StructuredTextType",
          "LevelType", "ItemType"}

ElementNames == {"Skill", "Technique", "Taxonomy_Name", "Note"}

ExtensionDocs ==
    {ExtensionDoc(k, b, n) :
        k \in {"simpleContent", "complexContent"}, b \in Bases, n \in ElementNames}

\* Top-level declarations that share names across and within the three
\* mappings, one without a name and one with a tag the index does not know.
DeclPool ==
    {Node(xs("complexType"), <<<<"name", "WeaknessType">>>>,
          <<Node(xs("sequence"), <<>>,
                 <<Node(xs("element"), <<<<"name", "Title">>, <<"type", "xs:string">>>>, <<>>),
                   Node(xs("element"), <<<<"name", "Score">>, <<"type", "xs:int">>>>, <<>>)>>)>>),
     Node(xs("complexType"), <<<<"name", "WeaknessType">>>>,
          <<Node(xs("attribute"), <<<<"name", "ID">>>>, <<>>)>>),
     Node(xs("element"), <<<<"name", "WeaknessType">>, <<"type", "xs:boolean">>>>, <<>>),
     Node(xs("element"), <<<<"name", "Weakness_Catalog">>, <<"type", "WeaknessType">>>>, <<>>),
     Node(xs("simpleType"), <<<<"name", "WeaknessType">>>>, <<LevelRestriction>>),
     Node(xs("simpleType"), <<<<"name", "WeaknessType">>>>,
          <<Node(xs("restriction"), <<<<"base", "xs:decimal">>>>, <<>>)>>),
     Node(xs("complexType"), <<>>, <<>>),
     Node(xs("annotation"), <<<<"name", "WeaknessType">>>>, <<>>)}

RECURSIVE SeqsUpTo(_, _)
SeqsUpTo(S, n) ==
    IF n = 0 THEN {<<>>}
    ELSE LET shorter == SeqsUpTo(S, n - 1)
         IN  shorter \cup {Append(q, d) : q \in shorter, d \in S}

IndexDocs == {Node(xs("schema"), <<>>, q) : q \in SeqsUpTo(DeclPool, MaxDecls)}

\* Schemas whose types refer to themselves, directly or through each other,
\* and schemas with shapes the resolver does not walk.
SelfReferenceDoc ==
    Node(xs("schema"), <<>>,
         <<Node(xs("complexType"), <<<<"name", "WeaknessType">>>>,
                <<Node(xs("sequence"), <<>>,
                       <<Node(xs("element"), <<<<"name", "Title">>, <<"type", "xs:string">>>>, <<>>),
                         Node(xs("element"), <<<<"name", "Child">>, <<"type", "WeaknessType">>,
                                               <<"minOccurs", "0">>>>, <<>>)>>)>>),
           Node(xs("element"), <<<<"name", "Weakness_Catalog">>,
                                 <<"type", "WeaknessType">>>>, <<>>)>>)

MutualReferenceDoc ==
    Node(xs("schema"), <<>>,
         <<Node(xs("complexType"), <<<<"name", "WeaknessType">>>>,
                <<Node(xs("complexContent"), <<>>,
                       <<Node(xs("extension"), <<<<"base", "Skill">>>>, <<>>)>>)>>),
           Node(xs("complexType"), <<<<"name", "Skill">>>>,
                <<Node(xs("attribute"), <<<<"name", "Owner">>, <<"type", "WeaknessType">>>>,
                       <<>>)>>),
           Node(xs("complexType"), <<<<"name", "AttackPatternType">>>>,
                <<Node(xs("attribute"), <<<<"name", "Status">>>>, <<>>)>>)>>)

UnsupportedDoc ==
    Node(xs("schema"), <<>>,
         <<Node(xs("complexType"), <<<<"name", "WeaknessType">>>>,
                <<Node(xs("choice"), <<>>,
                       <<Node(xs("element"), <<<<"name", "Title">>, <<"type", "xs:string">>>>,
                              <<>>)>>)>>),
           Node(xs("complexType"), <<<<"name", "Skill">>>>,
                <<Node(xs("complexContent"), <<>>,
                       <<Node(xs("restriction"), <<<<"base", "ItemType">>>>, <<>>)>>)>>),
           Node(xs("complexType"), <<<<"name", "AttackPatternType">>>>,
                <<Node(xs("sequence"), <<>>,
                       <<Node(xs("element"), <<<<"ref", "Weakness_Catalog">>>>, <<>>),
                         Node(xs("element"), <<<<"name", "Skill">>, <<"type", "Skill">>>>, <<>>),
                         Node(xs("element"), <<<<"name", "Kind">>, <<"type", "BareType">>>>, <<>>)>>)>>),
           Node(xs("simpleType"), <<<<"name", "BareType">>>>,
                <<Node(xs("union"), <<>>, <<>>)>>),
           Node(xs("element"), <<<<"name", "Weakness_Catalog">>>>, <<>>),
           Node(xs("element"), <<<<"name", "Attack_Pattern_Catalog">>,
                                 <<"type", "xs:unknownBuiltin">>>>, <<>>)>>)

SpecialDocs == {SelfReferenceDoc, MutualReferenceDoc, UnsupportedDoc}

IgnoreSets == {{}, {"status", "value", "title"}, {"example_instance", "name", "level"}}

\* The constructor's arguments: a schema document and the ignored keys.
Inputs ==
    ((OccursDocs \cup ExtensionDocs \cup SpecialDocs) \X IgnoreSets)
    \cup (IndexDocs \X {{}})

RootIdentifiers ==
    {"attack_pattern", "weakness", "attack_pattern_catalog", "weakness_catalog",
     "WeaknessType", "Skill", "Exploit-Name"}

Contexts == {"", "skill", "technique", "Technique", "taxonomy_name", "note"}

\* every node of the tree under (and including) node
RECURSIVE Descendants(_)
Descendants(node) ==
    {node} \cup UNION {Descendants(node.children[i]) : i \in 1..Len(node.children)}

NodesTagged(local) == {n \in Descendants(schema) : n.tag = xs(local)}

-----------------------------------------------------------------------------
(* The state machine: parse() and direct calls of the resolver's methods.  *)

NoCall == [method |-> "", node |-> Node("", <<>>, <<>>), context |-> "",
           result |-> Expr("", "")]

Init ==
    /\ \E in \in Inputs : schema = in[1] /\ ignored_keys = in[2]
    /\ simple_types = EmptyDict
    /\ complex_types = EmptyDict
    /\ global_elements = EmptyDict
    /\ pc = "new"
    /\ root_identifier = ""
    /\ root_name = ""
    /\ expr = Expr("", "")
    /\ error = ""
    /\ rendered = ""
    /\ call = NoCall

\* XSDSchemaCompiler.__init__: the three dicts are filled by _index_schema.
Indexed(index) ==
    /\ simple_types' = index.simple_types
    /\ complex_types' = index.complex_types
    /\ global_elements' = index.global_elements

Construct ==
    /\ pc = "new"
    /\ Indexed(_index_schema(schema))
    /\ pc' = "indexed"
    /\ UNCHANGED <<schema, ignored_keys, root_identifier, root_name, expr, error,
                   rendered, call>>

\* compile_root(root) returned e, or raised the exception e stands for
Compiled(root, e) ==
    IF Raised(e)
    THEN /\ pc' = "failed"
         /\ error' = e.value
         /\ UNCHANGED <<root_name, expr>>
    ELSE /\ pc' = "compiled"
         /\ root_name' = _snake_case(root)
         /\ expr' = e
         /\ UNCHANGED error

\* compile_root(root): returns (name, expr) or raises.
CompileRoot ==
    /\ pc = "indexed"
    /\ \E root \in RootIdentifiers :
         /\ root_identifier' = root
         /\ Compiled(root, compile_root(root))
    /\ UNCHANGED <<schema, ignored_keys, simple_types, complex_types, global_elements,
                   rendered, call>>

\* render(root_name, expr) in parse()
Render ==
    /\ pc = "compiled"
    /\ rendered' = render(root_name, expr)
    /\ pc' = "rendered"
    /\ UNCHANGED <<schema, ignored_keys, simple_types, complex_types, global_elements,
                   root_identifier, root_name, expr, error, call>>

\* a direct call of _element_to_field on an element declaration of the schema
CallElementToField ==
    /\ pc = "indexed"
    /\ \E node \in NodesTagged("element") :
         call' = [method |-> "_element_to_field", node |-> node, context |-> "",
                  result |-> _element_to_field(node, 1)]
    /\ pc' = "called"
    /\ UNCHANGED <<schema, ignored_keys, simple_types, complex_types, global_elements,
                   root_identifier, root_name, expr, error, rendered>>

\* a direct call of _attribute_to_field on an attribute declaration
CallAttributeToField ==
    /\ pc = "indexed"
    /\ \E node \in NodesTagged("attribute") :
         call' = [method |-> "_attribute_to_field", node |-> node, context |-> "",
                  result |-> _attribute_to_field(node, 1)]
    /\ pc' = "called"
    /\ UNCHANGED <<schema, ignored_keys, simple_types, complex_types, global_elements,
                   root_identifier, root_name, expr, error, rendered>>

\* a direct call of _expr_for_complex_type on a complex type of the schema
CallExprForComplexType ==
    /\ pc = "indexed"
    /\ \E node \in NodesTagged("complexType"), context \in Contexts :
         call' = [method |-> "_expr_for_complex_type", node |-> node,
                  context |-> context,
                  result |-> Field(context, _expr_for_complex_type(node, context, 1))]
    /\ pc' = "called"
    /\ UNCHANGED <<schema, ignored_keys, simple_types, complex_types, global_elements,
                   root_identifier, root_name, expr, error, rendered>>

\* render on the expression a direct call returned, under the field's name
RenderCall ==
    /\ pc = "called"
    /\ ~Raised(call.result.expr)
    /\ root_name' = call.result.name
    /\ expr' = call.result.expr
    /\ rendered' = render(call.result.name, call.result.expr)
    /\ pc' = "rendered"
    /\ UNCHANGED <<schema, ignored_keys, simple_types, complex_types, global_elements,
                   root_identifier, error, call>>

Next ==
    \/ Construct
    \/ CompileRoot
    \/ Render
    \/ CallElementToField
    \/ CallAttributeToField
    \/ CallExprForComplexType
    \/ RenderCall

Spec == Init /\ [][Next]_vars

-----------------------------------------------------------------------------
(* Definitions used to state the properties.                               *)

\* the state is one of parse(): compile_root was called, no method directly
InPipeline == call.method = "" /\ pc \in {"compiled", "failed", "rendered"}

\* True when the key compile_root looks up is in one of the two mappings.
RootResolves ==
    \/ LookupKey(root_identifier) \in DOMAIN global_elements
    \/ LookupKey(root_identifier) \in DOMAIN complex_types

\* the names that the type and base attributes under node refer to
TypeRefs(node) ==
    {_strip_ns(get(n, "type", "")) : n \in Descendants(node)}
    \cup {_strip_ns(get(n, "base", "")) : n \in Descendants(node)}

\* the named complex types a set of named complex types refers to
Successors(names) ==
    UNION {TypeRefs(complex_types[t]) : t \in names} \cap DOMAIN complex_types

\* the named complex types reachable from names, names included
RECURSIVE ReachableIn(_, _)
ReachableIn(names, steps) ==
    IF steps = 0 THEN names
    ELSE ReachableIn(names \cup Successors(names), steps - 1)

Reachable(names) == ReachableIn(names, Cardinality(DOMAIN complex_types))

\* the named complex types the declaration compile_root resolves starts from
RootTypes ==
    IF LookupKey(root_identifier) \in DOMAIN global_elements
    THEN TypeRefs(global_elements[LookupKey(root_identifier)]) \cap DOMAIN complex_types
    ELSE {LookupKey(root_identifier)} \cap DOMAIN complex_types

\* no complex type reachable from the root refers to itself, directly or
\* through other types
AcyclicFromRoot ==
    \A t \in Reachable(RootTypes) : t \notin Reachable(Successors({t}))

\* line.lstrip(" ")
RECURSIVE lstripSpaces(_)
lstripSpaces(line) ==
    IF line # "" /\ Ch(line, 1) = " " THEN lstripSpaces(Tail(line)) ELSE line

\* text.split("\n")
RECURSIVE SplitAt(_, _)
SplitAt(text, at) ==
    IF at = 0 THEN <<text>>
    ELSE <<SubSeq(text, 1, at - 1)>>
         \o SplitAt(SubSeq(text, at + 1, Len(text)),
                    IndexOf(SubSeq(text, at + 1, Len(text)), "\n"))

SplitLines(text) == SplitAt(text, IndexOf(text, "\n"))

\* a complex type node without extension content, sequence or attributes
Unsupported(node) ==
    /\ Len(Extensions(findall(node, XSD_NS \o "complexContent"))) = 0
    /\ Len(Extensions(findall(node, XSD_NS \o "simpleContent"))) = 0
    /\ ~found(node, XSD_NS \o "sequence")
    /\ ~found(node, XSD_NS \o "attribute")

\* a type reference that no rule of _expr_for_type_name matches
Unmatched(type_name) ==
    /\ type_name # ""
    /\ ~startswith(type_name, "xs:")
    /\ _strip_ns(type_name) \notin BuiltinKeywords \cup {"StructuredTextType"}
    /\ _strip_ns(type_name) \notin DOMAIN simple_types \cup DOMAIN complex_types

-----------------------------------------------------------------------------
(* C1 *)

\* C1 as stated: whenever the root identifier resolves to a global element
\* or a complex type, compile_root returns and does not raise.
C1_AlwaysCompiles == (InPipeline /\ RootResolves) => pc # "failed"

\* C1, amended: compilation of a resolvable root returns (and render gives
\* text) when no complex type reachable from the root refers to itself, the
\* nesting staying within the interpreter's recursion limit; the exceptions
\* compile_root can raise are the not-found error and, on such a cycle,
\* RecursionError; a complex type with no supported content is an empty
\* Object and an unmatched type reference is Scalar(string).
C1_CompilesWithoutTypeCycle ==
    /\ (InPipeline /\ RootResolves /\ AcyclicFromRoot) => pc # "failed"
    /\ (InPipeline /\ pc = "failed" /\ RootResolves) => error = "RecursionError"
    /\ (InPipeline /\ pc = "rendered") =>
          Len(rendered) > 0 /\ Ch(rendered, Len(rendered)) = "\n"
    /\ (call.method = "_expr_for_complex_type" /\ Unsupported(call.node)) =>
          call.result.expr = Expr("object", <<>>)
    /\ (/\ call.method = "_element_to_field"
        /\ Unmatched(get(call.node, "type", ""))
        /\ get(call.node, "minOccurs", "1") = "1"
        /\ get(call.node, "maxOccurs", "1") = "1") =>
          call.result.expr = Expr("scalar", "string")

\* C1's case: a schema with a choice group, a restriction and unmatched type
\* references was compiled from a complex-type root and rendered.
C1_Witness ==
    /\ InPipeline
    /\ pc = "rendered"
    /\ schema = UnsupportedDoc
    /\ root_identifier = "attack_pattern"
    /\ ignored_keys = {}
    /\ rendered = "attack_pattern:\n  item: string\n  skill:\n    {}\n  kind: string\n"

-----------------------------------------------------------------------------
(* C2 *)

\* the wrapping of content expression x the claim states for an element with
\* the given minOccurs and maxOccurs
OccursAsClaimed(e, x, min_occurs, max_occurs) ==
    /\ (max_occurs # "1" /\ min_occurs = "0") => e = Expr("optional", Expr("list", x))
    /\ (max_occurs # "1" /\ min_occurs # "0") => e = Expr("list", x)
    /\ (max_occurs = "1" /\ min_occurs = "0") => e = Expr("optional", x)
    /\ (max_occurs = "1" /\ min_occurs # "0") => e = x
    /\ ~(e.kind = "list" /\ e.value.kind = "optional")

\* C2: element resolution wraps the content expression in List exactly when
\* maxOccurs is not "1" and in Optional exactly when minOccurs is "0"; with
\* both, Optional is outside: Optional(List(x)), never List(Optional(x)).
C2_OccurrenceWrapping ==
    (call.method = "_element_to_field" /\ ~Raised(call.result.expr)) =>
        OccursAsClaimed(call.result.expr,
                        _expr_for_element_content(call.node, 2),
                        get(call.node, "minOccurs", "1"),
                        get(call.node, "maxOccurs", "1"))

\* C2's case: an element with minOccurs="0" and maxOccurs="unbounded" whose
\* content is an object was resolved to a field.
C2_Witness ==
    /\ call.method = "_element_to_field"
    /\ get(call.node, "minOccurs", "1") = "0"
    /\ get(call.node, "maxOccurs", "1") = "unbounded"
    /\ call.result.expr.kind = "optional"
    /\ call.result.expr.value.kind = "list"
    /\ call.result.expr.value.value.kind = "object"

-----------------------------------------------------------------------------
(* C3 *)

\* no Object in e, at any depth, has a field whose name is ignored
RECURSIVE NoIgnoredFields(_)
NoIgnoredFields(e) ==
    IF e.kind = "object"
    THEN \A i \in 1..Len(e.value) :
            /\ e.value[i].name \notin ignored_keys
            /\ NoIgnoredFields(e.value[i].expr)
    ELSE IF e.kind \in {"list", "optional"} THEN NoIgnoredFields(e.value)
    ELSE TRUE

\* a rendered line that declares a field with an ignored name
IgnoredFieldLine(line) ==
    \E k \in ignored_keys : startswith(lstripSpaces(line), k \o ":")

\* no line after the root's declares a field with an ignored name
NoIgnoredLines(lines) == \A i \in 2..Len(lines) : ~IgnoredFieldLine(lines[i])

\* C3: no Object of the compiled expression, at any nesting depth, has a
\* field whose name is in the ignore set, and no line of the rendered output
\* below the root's declares such a field.
C3_IgnoredFieldsNeverAppear ==
    /\ pc \in {"compiled", "rendered"} => NoIgnoredFields(expr)
    /\ (pc = "called" /\ ~Raised(call.result.expr)) => NoIgnoredFields(call.result.expr)
    /\ pc = "rendered" => NoIgnoredLines(SplitLines(rendered))

\* C3's case: title is ignored and declared two levels below the root, in a
\* type that is the content of an optional list; the output was rendered.
C3_Witness ==
    /\ InPipeline
    /\ pc = "rendered"
    /\ ignored_keys = {"status", "value", "title"}
    /\ root_identifier = "attack_pattern"
    /\ rendered = "attack_pattern:\n  example_instance: optional<\n    list<\n      level: optional<enum(\"High\", \"Medium\", \"Low\")>\n      id: int\n    >\n  >\n"

-----------------------------------------------------------------------------
(* C4 *)

\* the error names the root identifier and the schema path
NotFoundError ==
    /\ startswith(error, "ValueError")
    /\ Contains(error, "'" \o root_identifier \o "'")
    /\ Contains(error, schema_path)

\* C4 as stated: compile_root fails with the not-found error exactly when the
\* lookup key is in neither mapping, and returns a (name, expression) pair
\* for every key present in either.
C4_PairForEveryKeyPresent ==
    InPipeline =>
        /\ (pc = "failed" /\ NotFoundError) <=> ~RootResolves
        /\ RootResolves => pc # "failed"

\* C4, amended: compile_root fails with the not-found error exactly when the
\* lookup key is in neither mapping; for a key present in either it returns
\* a (name, expression) pair, unless resolution exceeds the recursion limit
\* (a type that refers to itself), where it raises RecursionError.
C4_NotFoundExactlyWhenKeyAbsent ==
    InPipeline =>
        /\ (pc = "failed" /\ NotFoundError) <=> ~RootResolves
        /\ (RootResolves /\ AcyclicFromRoot) =>
              (pc # "failed" /\ error = "" /\ expr.kind \in {"scalar", "object", "list"})
        /\ (RootResolves /\ pc = "failed") => error = "RecursionError"

\* C4's case: compile_root was called with a root identifier that is in
\* neither mapping of a schema that declares complex types, and failed.
C4_Witness ==
    /\ InPipeline
    /\ pc = "failed"
    /\ root_identifier = "Exploit-Name"
    /\ DOMAIN complex_types # {}
    /\ error = "ValueError: Root 'Exploit-Name' introuvable dans le schéma: schema.xsd"

-----------------------------------------------------------------------------
(* C5 *)

IsNumeral(s) == s # "" /\ \A i \in 1..Len(s) : IsDigit(Ch(s, i))

\* the number a decimal numeral stands for
RECURSIVE NatOf(_)
NatOf(s) ==
    IF s = "" THEN 0
    ELSE 10 * NatOf(SubSeq(s, 1, Len(s) - 1)) + (IndexOf(DigitChars, Ch(s, Len(s))) - 1)

\* a complex type without a complexContent or simpleContent extension
IsPlain(node) ==
    /\ Len(Extensions(findall(node, XSD_NS \o "complexContent"))) = 0
    /\ Len(Extensions(findall(node, XSD_NS \o "simpleContent"))) = 0

\* the fields of fields whose names are not ignored, in order
Surviving(fields) == SelectSeq(fields, LAMBDA f : f.name \notin ignored_keys)

\* the claim's condition: one element, no attributes, minOccurs 1, maxOccurs
\* unbounded or greater than one
CollapsesAsStated(elements, attrs) ==
    /\ Len(elements) = 1
    /\ Len(attrs) = 0
    /\ IsNumeral(get(elements[1], "minOccurs", "1"))
    /\ NatOf(get(elements[1], "minOccurs", "1")) = 1
    /\ \/ get(elements[1], "maxOccurs", "1") = "unbounded"
       \/ /\ IsNumeral(get(elements[1], "maxOccurs", "1"))
          /\ NatOf(get(elements[1], "maxOccurs", "1")) > 1

PlainAsStated(e, elements, attrs) ==
    IF CollapsesAsStated(elements, attrs)
    THEN e = Expr("list", _expr_for_element_content(elements[1], 2))
    ELSE e = Expr("object", ElementFields(elements, 1) \o AttributeFields(attrs, 1))

\* the condition with the code's string tests: maxOccurs is any value but "1"
CollapsesAsCoded(elements, attrs) ==
    /\ Len(elements) = 1
    /\ Len(attrs) = 0
    /\ get(elements[1], "minOccurs", "1") = "1"
    /\ get(elements[1], "maxOccurs", "1") # "1"

PlainAsCoded(e, elements, attrs) ==
    IF CollapsesAsCoded(elements, attrs)
    THEN e = Expr("list", _expr_for_element_content(elements[1], 2))
    ELSE e = Expr("object",
                  Surviving(ElementFields(elements, 1) \o AttributeFields(attrs, 1)))

\* C5 as stated: a plain complex type is a bare List of its child's content
\* exactly when its sequence holds one element, it has no attributes, the
\* element's minOccurs is 1 and its maxOccurs is unbounded or greater than
\* one; otherwise an Object with one field per sequence element followed by
\* one field per attribute.
C5_CollapseAsStated ==
    (/\ call.method = "_expr_for_complex_type"
     /\ IsPlain(call.node)
     /\ ~Raised(call.result.expr)) =>
        PlainAsStated(call.result.expr,
                      SequenceElements(findall(call.node, XSD_NS \o "sequence")),
                      findall(call.node, XSD_NS \o "attribute"))

\* C5, amended: a plain complex type is a bare List of its child's content
\* exactly when its first sequence holds one element, it has no attributes,
\* the element's minOccurs is absent or "1" and its maxOccurs is present and
\* not "1" ("0" included); otherwise an Object with the fields of the
\* sequence elements followed by those of the attributes, less the fields
\* whose names are in the ignore set.
C5_CollapseAsCoded ==
    (/\ call.method = "_expr_for_complex_type"
     /\ IsPlain(call.node)
     /\ ~Raised(call.result.expr)) =>
        PlainAsCoded(call.result.expr,
                     SequenceElements(findall(call.node, XSD_NS \o "sequence")),
                     findall(call.node, XSD_NS \o "attribute"))

\* C5's case: a complex type whose only child is a repeatable element of a
\* complex type, with no attributes, was resolved to a List of an Object.
C5_Witness ==
    /\ call.method = "_expr_for_complex_type"
    /\ get(call.node, "name", "") = "AttackPatternType"
    /\ CollapsesAsCoded(SequenceElements(findall(call.node, XSD_NS \o "sequence")),
                        findall(call.node, XSD_NS \o "attribute"))
    /\ call.result.expr.kind = "list"
    /\ call.result.expr.value.kind = "object"

-----------------------------------------------------------------------------
(* C6 *)

\* the extension node of a complex type that has one
ExtensionOf(complex_ext, simple_ext) ==
    IF Len(complex_ext) > 0 THEN complex_ext[1] ELSE simple_ext[1]

\* the base-value field name the claim states for a base that resolved to
\* base_expr, in context ctx
NameAsStated(base_expr, ctx) ==
    IF base_expr.kind # "scalar" THEN "value"
    ELSE IF Contains(ctx, "name") THEN "name"
    ELSE IF ctx = "skill" THEN "value"
    ELSE IF base_expr.value = "structured_text"
         THEN (IF ctx = "technique" THEN "text" ELSE "content")
    ELSE "value"

\* the same with the first rule limited to the base kind string
NameAsCoded(base_expr, ctx) ==
    IF base_expr.kind # "scalar" THEN "value"
    ELSE IF Contains(ctx, "name") /\ base_expr.value = "string" THEN "name"
    ELSE IF ctx = "skill" THEN "value"
    ELSE IF base_expr.value = "structured_text"
         THEN (IF ctx = "technique" THEN "text" ELSE "content")
    ELSE "value"

\* the Object e starts with the base-value field under that name, unless the
\* name is ignored, and then e has no field of that name
HasBaseField(e, name, base_expr) ==
    /\ e.kind = "object"
    /\ IF name \in ignored_keys
       THEN \A i \in 1..Len(e.value) : e.value[i].name # name
       ELSE Len(e.value) > 0 /\ e.value[1] = Field(name, base_expr)

\* C6 as stated: context containing "name" gives name; else context skill
\* gives value; else base structured_text gives text in context technique
\* and content otherwise; else value; a non-scalar base gives value.
C6_BaseValueNameAsStated ==
    (/\ call.method = "_expr_for_complex_type"
     /\ ~IsPlain(call.node)
     /\ ~Raised(call.result.expr)) =>
        HasBaseField(call.result.expr,
                     NameAsStated(call.result.expr.value[1].expr, lower(call.context)),
                     call.result.expr.value[1].expr)

C6_BaseFieldOf(e, extension, ctx) ==
    HasBaseField(e,
                 NameAsCoded(_expr_for_type_name(get(extension, "base", "xs:string"),
                                                 ctx, 2), lower(ctx)),
                 _expr_for_type_name(get(extension, "base", "xs:string"), ctx, 2))

\* C6, amended: with the context lowercased, context containing "name" and
\* base kind string gives name; else context skill gives value; else base
\* structured_text gives text in context technique and content otherwise;
\* else value; a non-scalar base gives value.
C6_BaseValueNameAsCoded ==
    (/\ call.method = "_expr_for_complex_type"
     /\ ~IsPlain(call.node)
     /\ ~Raised(call.result.expr)) =>
        C6_BaseFieldOf(call.result.expr,
                       ExtensionOf(Extensions(findall(call.node, XSD_NS \o "complexContent")),
                                   Extensions(findall(call.node, XSD_NS \o "simpleContent"))),
                       call.context)

\* C6's case: an extension of the structured-text type was resolved in the
\* context Technique and its base-value field is named text.
C6_Witness ==
    /\ call.method = "_expr_for_complex_type"
    /\ call.context = "Technique"
    /\ ~IsPlain(call.node)
    /\ ignored_keys = {}
    /\ call.result.expr.kind = "object"
    /\ call.result.expr.value[1] = Field("text", Expr("scalar", "structured_text"))

-----------------------------------------------------------------------------
(* C7 *)

\* the positions of the top-level declarations with that tag and name
DeclaredAt(local, name) ==
    {i \in 1..Len(schema.children) :
        /\ _strip_ns(schema.children[i].tag) = local
        /\ get(schema.children[i], "name", "") = name}

\* the names the top-level declarations with that tag carry
DeclaredNames(local) ==
    {get(schema.children[i], "name", "") :
        i \in {j \in 1..Len(schema.children) :
                  _strip_ns(schema.children[j].tag) = local}} \ {""}

First(positions) == CHOOSE i \in positions : \A j \in positions : i <= j
Last(positions) == CHOOSE i \in positions : \A j \in positions : i >= j

\* the mapping holds the declared names, each with its first declaration
HoldsFirst(dict, local) ==
    /\ DOMAIN dict = DeclaredNames(local)
    /\ \A name \in DOMAIN dict :
          dict[name] = schema.children[First(DeclaredAt(local, name))]

\* the mapping holds the declared names, each with its last declaration
HoldsLast(dict, local) ==
    /\ DOMAIN dict = DeclaredNames(local)
    /\ \A name \in DOMAIN dict :
          dict[name] = schema.children[Last(DeclaredAt(local, name))]

\* C7 as stated: after indexing, each name in the simple-type, complex-type
\* and global-element mappings refers to the first declaration of that tag
\* and name in document order.
C7_FirstDeclarationWins ==
    pc = "indexed" =>
        /\ HoldsFirst(simple_types, "simpleType")
        /\ HoldsFirst(complex_types, "complexType")
        /\ HoldsFirst(global_elements, "element")

\* C7, amended: after indexing, each name in the simple-type, complex-type
\* and global-element mappings refers to the last declaration of that tag
\* and name in document order: a later duplicate overwrites the entry.
C7_LastDeclarationWins ==
    pc = "indexed" =>
        /\ HoldsLast(simple_types, "simpleType")
        /\ HoldsLast(complex_types, "complexType")
        /\ HoldsLast(global_elements, "element")

\* C7's case: a schema that declares one complex type name twice, with
\* different content, has been indexed.
C7_Witness ==
    /\ pc = "indexed"
    /\ \E name \in DOMAIN complex_types :
          /\ Cardinality(DeclaredAt("complexType", name)) = 2
          /\ schema.children[First(DeclaredAt("complexType", name))]
                # schema.children[Last(DeclaredAt("complexType", name))]

-----------------------------------------------------------------------------
(* C8 *)

\* the expression of the attribute's type reference, inline simple type or
\* missing type
C8_TypeExpr(attr) ==
    AttributeExpr(attr, _snake_case(get(attr, "name", "attribute")),
                  get(attr, "type", ""), 1)

\* C8: the field expression of an attribute is its type's expression when
\* use is "required", and Optional of it for every other or absent use,
\* whatever the type reference, inline simple type or missing type.
C8_OptionalUnlessRequired ==
    (call.method = "_attribute_to_field" /\ ~Raised(call.result.expr)) =>
        /\ call.result.expr.kind = "optional"
              <=> get(call.node, "use", "") # "required"
        /\ call.result.expr =
              IF get(call.node, "use", "") = "required"
              THEN C8_TypeExpr(call.node)
              ELSE Expr("optional", C8_TypeExpr(call.node))

\* C8's case: _attribute_to_field was called on a required attribute with
\* an inline simple type and returned the enum unwrapped.
C8_Witness ==
    /\ call.method = "_attribute_to_field"
    /\ get(call.node, "use", "") = "required"
    /\ get(call.node, "type", "") = ""
    /\ found(call.node, XSD_NS \o "simpleType")
    /\ call.result.expr.kind = "scalar"
    /\ startswith(call.result.expr.value, "enum(")

-----------------------------------------------------------------------------
(* C9 *)

\* the key the claim states for a root identifier
StatedKey(identifier) ==
    CASE identifier = "attack_pattern" -> "AttackPatternType"
      [] identifier = "weakness" -> "WeaknessType"
      [] identifier = "attack_pattern_catalog" -> "Attack_Pattern_Catalog"
      [] identifier = "weakness_catalog" -> "Weakness_Catalog"
      [] OTHER -> identifier

\* the expression of the key: the global element's content if there is
\* one, the complex type otherwise
ResolvedAt(key) ==
    IF key \in DOMAIN global_elements
    THEN _expr_for_element_content(global_elements[key], 1)
    ELSE _expr_for_complex_type(complex_types[key], key, 1)

\* C9: compile_root maps the four logical root names through the alias
\* table and uses any other identifier verbatim; it resolves the key as a
\* global element first and only then as a complex type; the returned name
\* is the normalized original identifier.
C9_RootLookup ==
    (InPipeline /\ pc \in {"compiled", "rendered"}) =>
        /\ expr = ResolvedAt(StatedKey(root_identifier))
        /\ root_name = _snake_case(root_identifier)
        /\ root_identifier = "weakness" => root_name = "weakness"
        /\ root_identifier = "WeaknessType" => root_name = "weakness_type"

\* C9's case: the alias weakness was compiled on a schema where its key is
\* both a global element and a complex type that resolve differently.
C9_Witness ==
    /\ InPipeline
    /\ pc = "compiled"
    /\ root_identifier = "weakness"
    /\ root_name = "weakness"
    /\ "WeaknessType" \in DOMAIN global_elements
    /\ "WeaknessType" \in DOMAIN complex_types
    /\ expr # _expr_for_complex_type(complex_types["WeaknessType"], "WeaknessType", 1)

-----------------------------------------------------------------------------
(* C10 *)

EndsWithOneNewline(text) ==
    /\ Len(text) >= 1
    /\ Ch(text, Len(text)) = "\n"
    /\ Len(text) >= 2 => Ch(text, Len(text) - 1) # "\n"

\* the lines of the output before the trailing newline
LinesOf(text) == SplitLines(SubSeq(text, 1, Len(text) - 1))

Indented(lines) == [i \in 1..Len(lines) |-> "  " \o lines[i]]

\* the root is a scalar, or a wrapper directly around a scalar
BareRoot(e) ==
    \/ e.kind = "scalar"
    \/ e.kind \in {"list", "optional"} /\ e.value.kind = "scalar"

\* an Object root: the line name: and the body one level in
ObjectRootLines(lines, name, e, body) ==
    /\ lines[1] = name \o ":"
    /\ Tail(lines) = Indented(body)
    /\ Len(e.value) = 0 => Tail(lines) = <<"  {}">>

\* C10 as stated: for an Object root the output is the line name: and the
\* body one level in ({} for a fieldless Object); for a scalar or wrapper
\* root it is the single line name: rendering; it ends with exactly one
\* newline.
C10_SingleLineForWrapper ==
    pc = "rendered" =>
        /\ EndsWithOneNewline(rendered)
        /\ IF expr.kind = "object"
           THEN ObjectRootLines(LinesOf(rendered), root_name, expr,
                                _render_expr(expr, 0))
           ELSE /\ Len(LinesOf(rendered)) = 1
                /\ startswith(rendered, root_name \o ": ")

\* a root that is no Object: name: and the first line of the rendering,
\* then the rest of the rendering
OtherRootLines(lines, name, e, rendering) ==
    /\ lines[1] = name \o ": " \o rendering[1]
    /\ Tail(lines) = Tail(rendering)
    /\ Len(lines) = 1 <=> BareRoot(e)
    /\ ~BareRoot(e) => (lines[1] = name \o ": " \o e.kind \o "<"
                        /\ lines[Len(lines)] = ">"
                        /\ Len(lines) >= 3)

\* C10, amended: for an Object root the output is the line name: and the
\* body one level in ({} for a fieldless Object); for a scalar root or a
\* wrapper directly around a scalar it is the single line name: rendering;
\* for a wrapper around anything else it is the line name: list< or
\* name: optional<, the inner lines one level in and a closing line >; it
\* ends with exactly one newline.
C10_RootLayout ==
    pc = "rendered" =>
        /\ EndsWithOneNewline(rendered)
        /\ IF expr.kind = "object"
           THEN ObjectRootLines(LinesOf(rendered), root_name, expr,
                                _render_expr(expr, 0))
           ELSE OtherRootLines(LinesOf(rendered), root_name, expr,
                               _render_expr(expr, 0))

\* C10's case: a root that is a List of an Object has been rendered.
C10_Witness ==
    /\ pc = "rendered"
    /\ expr.kind = "list"
    /\ expr.value.kind = "object"
    /\ Len(LinesOf(rendered)) >= 3

-----------------------------------------------------------------------------
(* _snake_case on its own: the function is applied to a raw name, and then *)
(* to its own result.                                                      *)

\* Bound: the longest raw name.
MaxNameLen == 4

\* a lowercase letter, an uppercase letter, a digit and two separators
NameChars == {"a", "B", "1", "_", "-"}

RECURSIVE NamesOfLen(_)
NamesOfLen(n) ==
    IF n = 0 THEN {""}
    ELSE {c \o rest : c \in NameChars, rest \in NamesOfLen(n - 1)}

Names == UNION {NamesOfLen(n) : n \in 0..MaxNameLen}

\* no compiler has been constructed; root_identifier holds the raw name
InitSnakeCase ==
    /\ schema = Node(xs("schema"), <<>>, <<>>)
    /\ ignored_keys = {}
    /\ simple_types = EmptyDict
    /\ complex_types = EmptyDict
    /\ global_elements = EmptyDict
    /\ pc = "new"
    /\ root_identifier \in Names
    /\ root_name = ""
    /\ expr = Expr("", "")
    /\ error = ""
    /\ rendered = ""
    /\ call = NoCall

\* name = _snake_case(root_identifier)
CallSnakeCase ==
    /\ pc = "new"
    /\ call' = [method |-> "_snake_case", node |-> NoCall.node,
                context |-> root_identifier,
                result |-> _snake_case(root_identifier)]
    /\ root_name' = _snake_case(root_identifier)
    /\ pc' = "called"
    /\ UNCHANGED <<schema, ignored_keys, simple_types, complex_types, global_elements,
                   root_identifier, expr, error, rendered>>

\* _snake_case on the name a call of _snake_case returned
CallSnakeCaseAgain ==
    /\ pc = "called"
    /\ call.method = "_snake_case"
    /\ call' = [method |-> "_snake_case", node |-> NoCall.node,
                context |-> call.result,
                result |-> _snake_case(call.result)]
    /\ pc' = "recalled"
    /\ UNCHANGED <<schema, ignored_keys, simple_types, complex_types, global_elements,
                   root_identifier, root_name, expr, error, rendered>>

NextSnakeCase ==
    \/ CallSnakeCase
    \/ CallSnakeCaseAgain

SpecSnakeCase == InitSnakeCase /\ [][NextSnakeCase]_vars

-----------------------------------------------------------------------------
(* C11 *)

\* C11: _snake_case is idempotent: for every name over letters, digits and
\* separator characters, _snake_case(_snake_case(x)) = _snake_case(x).
C11_SnakeCaseIdempotent ==
    (pc = "recalled" /\ call.method = "_snake_case") =>
        /\ call.context = root_name
        /\ call.result = call.context

\* C11's case: a name with a case change, a leading separator and a run of
\* separators was normalized, and its result normalized again.
C11_Witness ==
    /\ pc = "recalled"
    /\ root_identifier = "-aB_"
    /\ root_name = "a_b"
    /\ call.context = "a_b"
    /\ call.result = "a_b"

-----------------------------------------------------------------------------
(* _expr_for_type_name on its own: a compiler is constructed on a schema   *)
(* and the method is called with a type reference.                         *)

\* a schema that declares a builtin keyword and the structured-text type
\* name, the latter as a simple and as a complex type
KeywordDoc ==
    Node(xs("schema"), <<>>,
         <<Node(xs("simpleType"), <<<<"name", "date">>>>, <<LevelRestriction>>),
           Node(xs("complexType"), <<<<"name", "StructuredTextType">>>>,
                <<Node(xs("attribute"), <<<<"name", "Lang">>>>, <<>>)>>),
           Node(xs("simpleType"), <<<<"name", "StructuredTextType">>>>,
                <<LevelRestriction>>),
           ItemType, LevelType>>)

TypeNameInputs ==
    (IndexDocs \cup SpecialDocs \cup {KeywordDoc}) \X {{}, {"status", "value", "title"}}

\* the type references: with the xs: prefix, another prefix, a {namespace}
\* and no prefix; builtin keywords, other builtin names, declared names
TypeNames ==
    {"xs:string", "string", "tns:boolean", "xs:dateTime", "xs:date", "date",
     "xs:WeaknessType", "WeaknessType", "capec:WeaknessType",
     "{urn:capec}WeaknessType", "StructuredTextType", "xs:StructuredTextType",
     "capec:StructuredTextType", "ItemType", "xs:ItemType", "LevelType",
     "Skill", "Unknown"}

InitTypeName ==
    /\ \E in \in TypeNameInputs : schema = in[1] /\ ignored_keys = in[2]
    /\ simple_types = EmptyDict
    /\ complex_types = EmptyDict
    /\ global_elements = EmptyDict
    /\ pc = "new"
    /\ root_identifier = ""
    /\ root_name = ""
    /\ expr = Expr("", "")
    /\ error = ""
    /\ rendered = ""
    /\ call = NoCall

\* a direct call of _expr_for_type_name(type_name, context_name)
CallExprForTypeName ==
    /\ pc = "indexed"
    /\ \E type_name \in TypeNames, context \in {"", "skill"} :
         call' = [method |-> "_expr_for_type_name", node |-> NoCall.node,
                  context |-> context, type_name |-> type_name,
                  result |-> Field(context, _expr_for_type_name(type_name, context, 1))]
    /\ pc' = "called"
    /\ UNCHANGED <<schema, ignored_keys, simple_types, complex_types, global_elements,
                   root_identifier, root_name, expr, error, rendered>>

NextTypeName ==
    \/ Construct
    \/ CallExprForTypeName

SpecTypeName == InitTypeName /\ [][NextTypeName]_vars

-----------------------------------------------------------------------------
(* C12 *)

\* the rules after the builtin one, in the stated order
DeclaredTypeExpr(local, context) ==
    IF local = "StructuredTextType" THEN Expr("scalar", "structured_text")
    ELSE IF local \in DOMAIN simple_types
         THEN _expr_for_simple_type(simple_types[local])
    ELSE IF local \in DOMAIN complex_types
         THEN _expr_for_complex_type(complex_types[local], context, 2)
    ELSE Expr("scalar", "string")

\* the static table applied to the stripped name, string when it has no entry
TableScalar(local) ==
    Expr("scalar", IF local \in DOMAIN mapping THEN mapping[local] ELSE "string")

\* the result e of resolving type_name follows the rules, where builtin
\* says whether the reference is treated as a builtin scalar
FollowsRules(e, local, context, builtin) ==
    /\ e = IF builtin THEN TableScalar(local) ELSE DeclaredTypeExpr(local, context)
    /\ (~builtin /\ local # "StructuredTextType" /\ local \in DOMAIN simple_types)
          => e = _expr_for_simple_type(simple_types[local])
    /\ (~builtin /\ local # "StructuredTextType" /\ local \notin DOMAIN simple_types
          /\ local \in DOMAIN complex_types)
          => e = _expr_for_complex_type(complex_types[local], context, 2)

\* C12 as stated: a type reference is a builtin scalar exactly when its
\* stripped name is in the builtin keyword list; else the structured-text
\* name gives Scalar(structured_text); else a simple type of the index
\* gives its enum or base scalar; else a complex type of the index is
\* resolved recursively; else Scalar(string).
C12_BuiltinExactlyWhenKeyword ==
    call.method = "_expr_for_type_name" =>
        FollowsRules(call.result.expr, _strip_ns(call.type_name), call.context,
                     _strip_ns(call.type_name) \in DOMAIN mapping)

\* C12, amended: a type reference is a builtin scalar exactly when it starts
\* with xs: or its stripped name is in the builtin keyword list; else the
\* structured-text name gives Scalar(structured_text); else a simple type
\* of the index gives its enum or base scalar; else a complex type of the
\* index is resolved recursively; else Scalar(string).  Hence a reference
\* without the xs: prefix whose stripped name is neither a keyword nor the
\* structured-text name resolves to its declaration in the index, the
\* simple type when it is declared as both.
C12_BuiltinWhenKeywordOrXsPrefix ==
    call.method = "_expr_for_type_name" =>
        FollowsRules(call.result.expr, _strip_ns(call.type_name), call.context,
                     \/ startswith(call.type_name, "xs:")
                     \/ _strip_ns(call.type_name) \in DOMAIN mapping)

\* C12's case: a prefixed reference to a name declared as a simple and as a
\* complex type was resolved to the simple type's enum.
C12_Witness ==
    /\ call.method = "_expr_for_type_name"
    /\ call.type_name = "capec:WeaknessType"
    /\ "WeaknessType" \in DOMAIN simple_types
    /\ "WeaknessType" \in DOMAIN complex_types
    /\ call.result.expr = Expr("scalar", "enum(\"High\", \"Medium\", \"Low\")")

====
